---- MODULE Spec2Model ----
(***************************************************************************)
(* A model of the Translator of src/lib.rs: a registry of per-language     *)
(* message templates (Translator::new, Translator::add_text) and the       *)
(* substitution of placeholder names by values (Translator::translate).    *)
(*                                                                         *)
(* Strings are sequences of character codes (1 = 'a', 2 = 'b', 3 = 'c'),   *)
(* ordered lexicographically as Rust orders str.  A HashMap is a function  *)
(* whose DOMAIN is its key set.  An Option / a Result's Ok payload is a    *)
(* sequence of length 0 (none) or 1 (some).                                *)
(***************************************************************************)
EXTENDS Integers, Sequences, FiniteSets, TLC

VARIABLES
    lang_input,     \* the list handed to Translator::new (kept for reference)
    languages,      \* Translator::languages
    translations,   \* Translator::translations : key -> Translation
    call,           \* the last call made and its inputs
    result          \* what the last call returned

vars == <<lang_input, languages, translations, call, result>>

----------------------------------------------------------------------------
(* Bounds of the model.                                                    *)

MaxLangInput == 3   \* length of the list given to Translator::new
MaxPairs == 2       \* (language, message) pairs in one add_text call
MaxBindings == 2    \* (argument, value) pairs in one translate call

----------------------------------------------------------------------------
(* Generic helpers.                                                        *)

SeqsUpTo(S, n) == UNION {[1..k -> S] : k \in 0..n}

Range(s) == {s[i] : i \in DOMAIN s}

None == -1

\* The text carried by Error::MissingLanguage (a fixed message, not an input).
NotAllLanguages == <<0>>

\* `str` ordering: bytewise lexicographic.
RECURSIVE StrLess(_, _)
StrLess(s, t) ==
    IF t = <<>> THEN FALSE
    ELSE IF s = <<>> THEN TRUE
    ELSE IF Head(s) < Head(t) THEN TRUE
    ELSE IF Head(s) > Head(t) THEN FALSE
    ELSE StrLess(Tail(s), Tail(t))

RECURSIVE InsertSorted(_, _)
InsertSorted(x, s) ==
    IF s = <<>> THEN <<x>>
    ELSE IF StrLess(Head(s), x) THEN <<Head(s)>> \o InsertSorted(x, Tail(s))
    ELSE <<x>> \o s

\* Vec::sort
RECURSIVE sort(_)
sort(s) == IF s = <<>> THEN <<>> ELSE InsertSorted(Head(s), sort(Tail(s)))

\* Vec::dedup: removes consecutive repeated elements.
RECURSIVE dedup(_)
dedup(s) ==
    IF Len(s) <= 1 THEN s
    ELSE IF s[1] = s[2] THEN dedup(Tail(s))
    ELSE <<s[1]>> \o dedup(Tail(s))

\* Iterator::position: the 0-based index of the first element equal to x.
position(s, x) ==
    IF \E i \in DOMAIN s : s[i] = x
    THEN (CHOOSE i \in DOMAIN s : s[i] = x /\ \A j \in 1..(i-1) : s[j] # x) - 1
    ELSE None

----------------------------------------------------------------------------
(* Results.                                                                *)

Ok(v, m) == [kind |-> "Ok", arg |-> <<>>, value |-> <<v>>, matches |-> m]
OkUnit == [kind |-> "Ok", arg |-> <<>>, value |-> <<>>, matches |-> <<>>]
Err(k, a) == [kind |-> k, arg |-> a, value |-> <<>>, matches |-> <<>>]

----------------------------------------------------------------------------
(* Translator::new                                                         *)

\* (mutant) the sort is forgotten
new_unsorted(langs) == dedup(langs)

new(langs) == dedup(sort(langs))

----------------------------------------------------------------------------
(* Translator::add_text                                                    *)

\* The for loop over the supplied (language_key, message) pairs.
RECURSIVE process_translations(_, _, _)
process_translations(langs, pairs, processed) ==
    IF pairs = <<>> THEN [kind |-> "Ok", arg |-> <<>>, map |-> processed]
    ELSE LET language_key == Head(pairs)[1]
             message == Head(pairs)[2]
             language_id == position(langs, language_key)
         IN  IF language_id = None
             THEN [kind |-> "UnknownLanguage", arg |-> language_key, map |-> processed]
             ELSE LET is_duplicate == language_id \in DOMAIN processed
                      inserted == [id \in DOMAIN processed \cup {language_id} |->
                                     IF id = language_id THEN message ELSE processed[id]]
                  IN  IF is_duplicate
                      THEN [kind |-> "DuplicatedKey", arg |-> language_key, map |-> inserted]
                      ELSE process_translations(langs, Tail(pairs), inserted)

EmptyMap == [id \in {} |-> <<>>]

\* HashMap::insert on Translator::translations.
InsertTranslation(reg, key, translation) ==
    [k \in DOMAIN reg \cup {key} |-> IF k = key THEN translation ELSE reg[k]]

\* (mutant) the contains_key check is missing: insert overwrites
add_text_overwrite(reg, langs, key, arguments, pairs) ==
    LET p == process_translations(langs, pairs, EmptyMap)
    IN  IF p.kind # "Ok"
        THEN [res |-> Err(p.kind, p.arg), reg |-> reg]
        ELSE IF Cardinality(DOMAIN p.map) < Len(langs)
        THEN [res |-> Err("MissingLanguage", NotAllLanguages), reg |-> reg]
        ELSE [res |-> OkUnit,
              reg |-> InsertTranslation(reg, key,
                         [arguments |-> arguments, translations |-> p.map])]

\* (mutant) the MissingLanguage check is missing
add_text_unchecked(reg, langs, key, arguments, pairs) ==
    IF key \in DOMAIN reg
    THEN [res |-> Err("DuplicatedKey", key), reg |-> reg]
    ELSE LET p == process_translations(langs, pairs, EmptyMap)
         IN  IF p.kind # "Ok"
             THEN [res |-> Err(p.kind, p.arg), reg |-> reg]
             ELSE [res |-> OkUnit,
                   reg |-> InsertTranslation(reg, key,
                              [arguments |-> arguments, translations |-> p.map])]

\* (mutant) the entry is inserted before the pairs are validated
add_text_eager(reg, langs, key, arguments, pairs) ==
    IF key \in DOMAIN reg
    THEN [res |-> Err("DuplicatedKey", key), reg |-> reg]
    ELSE LET p == process_translations(langs, pairs, EmptyMap)
             inserted == InsertTranslation(reg, key,
                             [arguments |-> arguments, translations |-> p.map])
         IN  IF p.kind # "Ok"
             THEN [res |-> Err(p.kind, p.arg), reg |-> inserted]
             ELSE IF Cardinality(DOMAIN p.map) < Len(langs)
             THEN [res |-> Err("MissingLanguage", NotAllLanguages), reg |-> inserted]
             ELSE [res |-> OkUnit, reg |-> inserted]

\* (mutant) the coverage test is off by one (<= for <)
add_text_off_by_one(reg, langs, key, arguments, pairs) ==
    IF key \in DOMAIN reg
    THEN [res |-> Err("DuplicatedKey", key), reg |-> reg]
    ELSE LET p == process_translations(langs, pairs, EmptyMap)
         IN  IF p.kind # "Ok"
             THEN [res |-> Err(p.kind, p.arg), reg |-> reg]
             ELSE IF Cardinality(DOMAIN p.map) <= Len(langs)
             THEN [res |-> Err("MissingLanguage", NotAllLanguages), reg |-> reg]
             ELSE [res |-> OkUnit,
                   reg |-> InsertTranslation(reg, key,
                              [arguments |-> arguments, translations |-> p.map])]

\* The whole call: the result returned and the registry afterwards.
add_text(reg, langs, key, arguments, pairs) ==
    IF key \in DOMAIN reg
    THEN [res |-> Err("DuplicatedKey", key), reg |-> reg]
    ELSE LET p == process_translations(langs, pairs, EmptyMap)
         IN  IF p.kind # "Ok"
             THEN [res |-> Err(p.kind, p.arg), reg |-> reg]
             ELSE IF Cardinality(DOMAIN p.map) < Len(langs)
             THEN [res |-> Err("MissingLanguage", NotAllLanguages), reg |-> reg]
             ELSE [res |-> OkUnit,
                   reg |-> InsertTranslation(reg, key,
                              [arguments |-> arguments, translations |-> p.map])]

----------------------------------------------------------------------------
(* AhoCorasick::new(arguments) with the default MatchKind::Standard, and   *)
(* AhoCorasick::try_replace_all.  The automaton's state is the longest     *)
(* suffix of the text read since the search started that is a prefix of a  *)
(* pattern; the search stops at the first state that holds a match and     *)
(* reports the first pattern of that state's match list, which lists the   *)
(* state's own pattern before the patterns of its failure states.          *)
(* Patterns are non-empty and pairwise different (translate rejects a      *)
(* repeated argument before the automaton is built).                       *)

IsPrefix(p, s) == Len(p) <= Len(s) /\ SubSeq(s, 1, Len(p)) = p

IsSuffix(p, s) == Len(p) <= Len(s) /\ SubSeq(s, Len(s) - Len(p) + 1, Len(s)) = p

Suffixes(s) == {SubSeq(s, i, Len(s)) : i \in 1..(Len(s) + 1)}

\* A trie node: the root, or a prefix of some pattern.
IsNode(patterns, s) == s = <<>> \/ \E i \in DOMAIN patterns : IsPrefix(s, patterns[i])

Longest(S) == CHOOSE s \in S : \A t \in S : Len(t) <= Len(s)

\* The transition function: follow failure links until a node accepts c.
next_state(patterns, node, c) ==
    Longest({s \in Suffixes(Append(node, c)) : IsNode(patterns, s)})

\* The patterns a state matches (indices into patterns).
state_matches(patterns, node) ==
    {i \in DOMAIN patterns : IsSuffix(patterns[i], node)}

\* (mutant) the match list holds the failure states' patterns first
first_match_shortest(patterns, node) ==
    CHOOSE i \in state_matches(patterns, node) :
        \A j \in state_matches(patterns, node) : Len(patterns[i]) <= Len(patterns[j])

\* The first entry of the state's match list.
first_match(patterns, node) ==
    CHOOSE i \in state_matches(patterns, node) :
        \A j \in state_matches(patterns, node) : Len(patterns[j]) <= Len(patterns[i])

\* One non-overlapping search of haystack[at..], the automaton in state node
\* having read haystack up to position pos (0-based offsets, end exclusive).
RECURSIVE find_from(_, _, _, _)
find_from(patterns, haystack, node, pos) ==
    IF state_matches(patterns, node) # {}
    THEN LET i == first_match(patterns, node)
         IN  <<[pattern |-> i, start |-> pos - Len(patterns[i]), end |-> pos]>>
    ELSE IF pos >= Len(haystack) THEN <<>>
    ELSE find_from(patterns, haystack,
                   next_state(patterns, node, haystack[pos + 1]), pos + 1)

try_find(patterns, haystack, at) == find_from(patterns, haystack, <<>>, at)

\* find_iter: each search starts where the previous match ended.
RECURSIVE find_iter(_, _, _)
find_iter(patterns, haystack, at) ==
    LET m == try_find(patterns, haystack, at)
    IN  IF m = <<>> THEN <<>>
        ELSE m \o find_iter(patterns, haystack, m[1].end)

\* replace_all's closure: copy the text between matches, then the value.
RECURSIVE replace_matches(_, _, _, _)
replace_matches(haystack, ms, replace_with, last) ==
    IF ms = <<>> THEN SubSeq(haystack, last + 1, Len(haystack))
    ELSE SubSeq(haystack, last + 1, ms[1].start)
         \o replace_with[ms[1].pattern]
         \o replace_matches(haystack, Tail(ms), replace_with, ms[1].end)

\* (mutant) only the first match is replaced
try_replace_first(patterns, haystack, replace_with) ==
    LET ms == find_iter(patterns, haystack, 0)
    IN  replace_matches(haystack, IF ms = <<>> THEN ms ELSE <<ms[1]>>, replace_with, 0)

\* (mutant) the replaced text is scanned and replaced once more
try_replace_rescan(patterns, haystack, replace_with) ==
    LET once == replace_matches(haystack, find_iter(patterns, haystack, 0), replace_with, 0)
    IN  replace_matches(once, find_iter(patterns, once, 0), replace_with, 0)

try_replace_all(patterns, haystack, replace_with) ==
    replace_matches(haystack, find_iter(patterns, haystack, 0), replace_with, 0)

----------------------------------------------------------------------------
(* Translator::translate                                                   *)

\* The for loop over the supplied (argument, value) pairs.
RECURSIVE collect_args(_, _, _, _)
collect_args(declared, args, arguments, values_to_replace) ==
    IF args = <<>>
    THEN [kind |-> "Ok", arg |-> <<>>,
          arguments |-> arguments, values |-> values_to_replace]
    ELSE LET argument_received == Head(args)[1]
             value_to_replace == Head(args)[2]
         IN  IF ~ \E i \in DOMAIN declared : declared[i] = argument_received
             THEN [kind |-> "UnknownArgument", arg |-> argument_received,
                   arguments |-> arguments, values |-> values_to_replace]
             ELSE IF \E i \in DOMAIN arguments : arguments[i] = argument_received
             THEN [kind |-> "DuplicatedArgument", arg |-> argument_received,
                   arguments |-> arguments, values |-> values_to_replace]
             ELSE collect_args(declared, Tail(args),
                               Append(arguments, argument_received),
                               Append(values_to_replace, value_to_replace))

\* (mutant) the language is resolved before the key is looked up
translate_language_first(reg, langs, key, language, args) ==
    IF position(langs, language) = None THEN Err("UnknownLanguage", language)
    ELSE IF key \notin DOMAIN reg THEN Err("MissingKey", key)
    ELSE LET translation == reg[key]
             language_id == position(langs, language)
             message_to_translate == translation.translations[language_id]
             c == collect_args(translation.arguments, args, <<>>, <<>>)
         IN  IF c.kind # "Ok" THEN Err(c.kind, c.arg)
             ELSE Ok(replace_matches(message_to_translate,
                                     find_iter(c.arguments, message_to_translate, 0),
                                     c.values, 0),
                     find_iter(c.arguments, message_to_translate, 0))

translate(reg, langs, key, language, args) ==
    IF key \notin DOMAIN reg THEN Err("MissingKey", key)
    ELSE LET translation == reg[key]
             language_id == position(langs, language)
         IN  IF language_id = None THEN Err("UnknownLanguage", language)
             \* indexing a HashMap with an absent key panics
             ELSE IF language_id \notin DOMAIN translation.translations
             THEN Err("Panic", <<>>)
             ELSE LET message_to_translate == translation.translations[language_id]
                      c == collect_args(translation.arguments, args, <<>>, <<>>)
                  IN  IF c.kind # "Ok" THEN Err(c.kind, c.arg)
                      ELSE Ok(try_replace_all(c.arguments, message_to_translate, c.values),
                              find_iter(c.arguments, message_to_translate, 0))

----------------------------------------------------------------------------
(* The inputs the calls are made with.                                     *)

\* Language identifiers: "b" and "ab" may be registered, "c" never is.
LangB == <<2>>
LangAB == <<1, 2>>
LangC == <<3>>
LangNames == {LangB, LangAB}

\* Message keys.
K1 == <<1>>
K2 == <<2>>
Keys == {K1, K2}

\* Argument (placeholder) names: non-empty, one a prefix of another ("ab",
\* "abb") and one inside another ("b").
ArgB == <<2>>
ArgAB == <<1, 2>>
ArgABB == <<1, 2, 2>>

\* Messages (templates).
MsgABB == <<1, 2, 2>>
MsgAABB == <<1, 1, 2, 2>>
MsgCAB == <<3, 1, 2>>

NoCall == [op |-> "new", key |-> <<>>, arguments |-> <<>>, translations |-> <<>>,
           language |-> <<>>, args |-> <<>>]

AddCall(key, arguments, pairs) ==
    [op |-> "add_text", key |-> key, arguments |-> arguments,
     translations |-> pairs, language |-> <<>>, args |-> <<>>]

TranslateCall(key, language, args) ==
    [op |-> "translate", key |-> key, arguments |-> <<>>, translations |-> <<>>,
     language |-> language, args |-> args]

----------------------------------------------------------------------------
(* The calls as actions.                                                   *)

Construct(inputs) ==
    /\ lang_input \in inputs
    /\ languages = new(lang_input)
    /\ translations = [k \in {} |-> <<>>]
    /\ call = NoCall
    /\ result = OkUnit

AddText(keyArgs, pairLists) ==
    \E ka \in keyArgs, pairs \in pairLists :
        LET r == add_text(translations, languages, ka[1], ka[2], pairs)
        IN  /\ translations' = r.reg
            /\ result' = r.res
            /\ call' = AddCall(ka[1], ka[2], pairs)
            /\ UNCHANGED <<lang_input, languages>>

Translate(calls) ==
    \E c \in calls :
        /\ result' = translate(translations, languages, c[1], c[2], c[3])
        /\ call' = TranslateCall(c[1], c[2], c[3])
        /\ UNCHANGED <<lang_input, languages, translations>>

----------------------------------------------------------------------------
(* Spec: the registry under arbitrary construction and add_text calls,     *)
(* with a few translate calls in between.                                  *)

\* (language, message) pairs: two messages for "b", one for "ab", and one for
\* the unregistered "c".
RegPairs ==
    {<<LangB, MsgABB>>, <<LangB, MsgCAB>>, <<LangAB, MsgABB>>, <<LangC, MsgABB>>}

RegPairLists == SeqsUpTo(RegPairs, MaxPairs)

\* (key, arguments) of the add_text calls; one list repeats a name.
RegKeyArgs == {<<K1, <<ArgB, ArgB>>>>, <<K2, <<ArgAB, ArgB>>>>}

RegTranslateCalls ==
    Keys \X (LangNames \cup {LangC}) \X {<<>>, <<<<ArgB, <<3>>>>>>}

Init == Construct(SeqsUpTo(LangNames, MaxLangInput))

RegAddText == AddText(RegKeyArgs, RegPairLists)

RegTranslate == Translate(RegTranslateCalls)

Next == RegAddText \/ RegTranslate

Spec == Init /\ [][Next]_vars

----------------------------------------------------------------------------
(* SpecTranslate: translate under many bindings, on a registry of two      *)
(* languages filled by well-formed and ill-formed add_text calls.          *)

TrArgLists == {<<ArgB, ArgAB, ArgABB>>, <<ArgABB, ArgAB>>}

TrPairLists ==
    {<<<<LangAB, MsgABB>>, <<LangB, MsgAABB>>>>,
     <<<<LangB, MsgCAB>>, <<LangAB, MsgAABB>>>>,
     <<<<LangB, MsgABB>>, <<LangAB, MsgCAB>>>>,
     <<<<LangB, MsgABB>>>>}

\* Bindings: values that are empty, foreign ("c"), the argument's own name,
\* or another argument's name.
BindingPairs ==
    {<<ArgB, <<3>>>>, <<ArgB, ArgB>>, <<ArgB, ArgAB>>,
     <<ArgAB, <<>>>>, <<ArgAB, <<3>>>>, <<ArgAB, ArgAB>>,
     <<ArgABB, <<3>>>>, <<ArgABB, ArgABB>>}

Bindings == SeqsUpTo(BindingPairs, MaxBindings)

\* Every binding list in language "ab"; the short ones with every key and
\* language, registered or not.
TrTranslateCalls ==
    ({K1} \X {LangAB} \X Bindings)
    \cup (Keys \X (LangNames \cup {LangC}) \X SeqsUpTo(BindingPairs, 1))

TrInit == Construct({<<LangB, LangAB, LangB>>})

TrAddText == AddText({K1} \X TrArgLists, TrPairLists)

TrTranslate == Translate(TrTranslateCalls)

TrNext == TrAddText \/ TrTranslate

SpecTranslate == TrInit /\ [][TrNext]_vars

----------------------------------------------------------------------------
(* Claims about the registry, checked under Spec.                          *)

NoRepeat(s) == \A i, j \in DOMAIN s : s[i] = s[j] => i = j

\* The languages named by the pairs of the last add_text call.
Covered(pairs) == {pairs[i][1] : i \in DOMAIN pairs}

StrictSubset(A, B) == A \subseteq B /\ A # B

\* C1: once add_text has succeeded for a key, every later add_text for that
\* key returns DuplicatedKey(key), whatever its arguments and pairs, and no
\* step changes or removes the entry stored for the key.
C1_DuplicatedKeyNeverOverwrites ==
    [][\A k \in DOMAIN translations :
          /\ k \in DOMAIN translations'
          /\ translations'[k] = translations[k]
          /\ (call'.op = "add_text" /\ call'.key = k)
                => result' = Err("DuplicatedKey", k)]_vars

\* A repeated add_text for a stored key, naming an unregistered language and
\* other arguments than the stored ones, was answered with DuplicatedKey.
C1_Witness ==
    /\ call.op = "add_text"
    /\ call.key \in DOMAIN translations
    /\ result = Err("DuplicatedKey", call.key)
    /\ LangC \in Covered(call.translations)
    /\ \E k \in DOMAIN translations : k # call.key

\* C2: every stored Translation holds a template for exactly the language
\* ids 0 .. len(languages)-1, and translate's template lookup never fails.
C2_OneTemplatePerLanguage ==
    /\ \A k \in DOMAIN translations :
          DOMAIN translations[k].translations = 0..(Len(languages) - 1)
    /\ result.kind # "Panic"

\* With two languages registered and both keys stored, a translate call
\* resolved its language and found the template.
C2_Witness ==
    /\ Len(languages) = 2
    /\ DOMAIN translations = Keys
    /\ call.op = "translate"
    /\ result.kind = "Ok"

\* C3: an add_text call that returns an error leaves translations as it was;
\* one that returns Ok adds exactly its key; languages never changes.
C3_ErrorLeavesRegistryUnchanged ==
    [][call'.op = "add_text" =>
          /\ languages' = languages
          /\ IF result'.kind # "Ok"
             THEN translations' = translations
             ELSE /\ call'.key \notin DOMAIN translations
                  /\ DOMAIN translations' = DOMAIN translations \cup {call'.key}
                  /\ \A k \in DOMAIN translations : translations'[k] = translations[k]
                  /\ translations'[call'.key].arguments = call'.arguments]_vars

\* An add_text call for a new key failed with MissingLanguage after a pair
\* had been processed, on a registry that already held an entry.
C3_Witness ==
    /\ call.op = "add_text"
    /\ result.kind = "MissingLanguage"
    /\ call.translations # <<>>
    /\ call.key \notin DOMAIN translations
    /\ translations # [k \in {} |-> <<>>]

\* C4 as stated: add_text returns MissingLanguage if and only if the pairs
\* cover a strict subset of the registered languages.
C4_Original ==
    call.op = "add_text" =>
        (result.kind = "MissingLanguage"
            <=> StrictSubset(Covered(call.translations), Range(languages)))

\* C4 amended: MissingLanguage is returned only if the pairs cover a strict
\* subset of the registered languages, and it is returned whenever they do,
\* the key is new and no language is supplied twice.
C4_MissingLanguageIff ==
    [][call'.op = "add_text" =>
          /\ result'.kind = "MissingLanguage"
                => StrictSubset(Covered(call'.translations), Range(languages))
          /\ ( /\ call'.key \notin DOMAIN translations
               /\ NoRepeat([i \in DOMAIN call'.translations |-> call'.translations[i][1]])
               /\ StrictSubset(Covered(call'.translations), Range(languages)) )
                => result'.kind = "MissingLanguage"]_vars

\* One of two registered languages was supplied for a new key.
C4_Witness ==
    /\ call.op = "add_text"
    /\ result.kind = "MissingLanguage"
    /\ Len(languages) = 2
    /\ Len(call.translations) = 1

\* The rank of x among the distinct identifiers given to Translator::new.
Rank(x) == Cardinality({y \in Range(lang_input) : StrLess(y, x)})

\* C9: languages is the ascending list of the distinct identifiers given to
\* Translator::new, so each identifier's LanguageId is its rank; building
\* from the sorted, deduplicated list gives the same list; and no call
\* changes languages.
C9_LanguageIdsFromSetOnly ==
    /\ [](/\ Range(languages) = Range(lang_input)
          /\ \A i \in 1..(Len(languages) - 1) : StrLess(languages[i], languages[i + 1])
          /\ \A x \in Range(lang_input) : position(languages, x) = Rank(x)
          /\ new(languages) = languages)
    /\ [][languages' = languages]_vars

\* The list was given unsorted with a repeated identifier, and calls of both
\* kinds have been made since.
C9_Witness ==
    /\ lang_input = <<LangB, LangAB, LangB>>
    /\ languages = <<LangAB, LangB>>
    /\ translations # [k \in {} |-> <<>>]
    /\ call.op = "translate"

\* C10: no stored Translation's arguments holds a name twice.
C10_UniquePlaceholders ==
    \A k \in DOMAIN translations : NoRepeat(translations[k].arguments)

----------------------------------------------------------------------------
(* Claims about translate, checked under SpecTranslate.                    *)

\* The names and values bound by the last translate call, in order.
BoundNames == [i \in DOMAIN call.args |-> call.args[i][1]]
BoundValues == [i \in DOMAIN call.args |-> call.args[i][2]]

\* The template the last translate call resolved.
CallTemplate ==
    translations[call.key].translations[position(languages, call.language)]

\* p occurs in s at 0-based offset i.
OccursAt(p, s, i) == i + Len(p) <= Len(s) /\ SubSeq(s, i + 1, i + Len(p)) = p

Occurs(p, s) == \E i \in 0..Len(s) : OccursAt(p, s, i)

\* A translate call on a stored key and a registered language whose bound
\* names are all declared and pairwise different.
ValidCall ==
    /\ call.op = "translate"
    /\ call.key \in DOMAIN translations
    /\ call.language \in Range(languages)
    /\ \A i \in DOMAIN BoundNames :
          BoundNames[i] \in Range(translations[call.key].arguments)
    /\ NoRepeat(BoundNames)

\* C5 as stated: a valid call succeeds and no bound name occurs in its output.
C5_Original ==
    ValidCall =>
        /\ result.kind = "Ok"
        /\ \A i \in DOMAIN BoundNames : ~ Occurs(BoundNames[i], result.value[1])

\* Every occurrence <<i, s>> of a bound name i at offset s of text t.
Occurrences(names, t) ==
    {o \in (DOMAIN names) \X (0..Len(t)) : OccursAt(names[o[1]], t, o[2])}

\* No two occurrences of bound names share a character of the template.
NoOverlap(names, t) ==
    \A o1, o2 \in Occurrences(names, t) :
        o1 # o2 => \/ o1[2] + Len(names[o1[1]]) <= o2[2]
                   \/ o2[2] + Len(names[o2[1]]) <= o1[2]

\* Every bound value is non-empty and shares no character with a bound name.
ValuesForeign ==
    \A i, j \in DOMAIN BoundNames :
        BoundValues[i] # <<>> /\ Range(BoundValues[i]) \cap Range(BoundNames[j]) = {}

\* t from offset pos on, each occurrence of a bound name replaced by its value.
RECURSIVE ReplaceEach(_, _, _, _)
ReplaceEach(names, values, t, pos) ==
    IF pos >= Len(t) THEN <<>>
    ELSE IF \E i \in DOMAIN names : OccursAt(names[i], t, pos)
    THEN LET i == CHOOSE i \in DOMAIN names : OccursAt(names[i], t, pos)
         IN  values[i] \o ReplaceEach(names, values, t, pos + Len(names[i]))
    ELSE <<t[pos + 1]>> \o ReplaceEach(names, values, t, pos + 1)

\* C5 amended: a valid call succeeds; when no two occurrences of bound names
\* overlap in the template, every occurrence is replaced by exactly its bound
\* value; and when every bound value is non-empty and shares no character
\* with a bound name, no bound name occurs in the output.
C5_ValidCallSubstitutes ==
    ValidCall =>
        /\ result.kind = "Ok"
        /\ NoOverlap(BoundNames, CallTemplate)
              => result.value[1] = ReplaceEach(BoundNames, BoundValues, CallTemplate, 0)
        /\ ValuesForeign
              => \A i \in DOMAIN BoundNames : ~ Occurs(BoundNames[i], result.value[1])

\* Two names were bound to foreign values and found in the template.
C5_Witness ==
    /\ ValidCall
    /\ Len(call.args) = 2
    /\ ValuesForeign
    /\ Len(result.matches) >= 2

\* The occurrences of bound names in t that start at or after offset at.
Candidates(names, t, at) == {o \in Occurrences(names, t) : o[2] >= at}

AsMatch(names, o) ==
    [pattern |-> o[1], start |-> o[2], end |-> o[2] + Len(names[o[1]])]

\* Leftmost-first: the smallest start, then the name supplied first.
LeftmostFirstPick(names, t, at) ==
    CHOOSE o \in Candidates(names, t, at) :
        \A q \in Candidates(names, t, at) :
            o[2] < q[2] \/ (o[2] = q[2] /\ o[1] <= q[1])

RECURSIVE LeftmostFirstMatches(_, _, _)
LeftmostFirstMatches(names, t, at) ==
    IF Candidates(names, t, at) = {} THEN <<>>
    ELSE LET m == AsMatch(names, LeftmostFirstPick(names, t, at))
         IN  <<m>> \o LeftmostFirstMatches(names, t, m.end)

\* Earliest end: the smallest end, then the longest name.
EarliestEndPick(names, t, at) ==
    CHOOSE o \in Candidates(names, t, at) :
        \A q \in Candidates(names, t, at) :
            LET eo == o[2] + Len(names[o[1]])
                eq == q[2] + Len(names[q[1]])
            IN  eo < eq \/ (eo = eq /\ o[2] <= q[2])

RECURSIVE EarliestEndMatches(_, _, _)
EarliestEndMatches(names, t, at) ==
    IF Candidates(names, t, at) = {} THEN <<>>
    ELSE LET m == AsMatch(names, EarliestEndPick(names, t, at))
         IN  <<m>> \o EarliestEndMatches(names, t, m.end)

RECURSIVE Shift(_, _, _)
Shift(ms, values, k) ==
    IF k = 0 THEN 0
    ELSE Shift(ms, values, k - 1)
         + Len(values[ms[k].pattern]) - (ms[k].end - ms[k].start)

\* C7: the output is the template with each match replaced, once, by its
\* bound value verbatim: every match is an occurrence of its name in the
\* template after the previous match, the value stands in the output where
\* the match stood (moved by the growth of the earlier replacements), the
\* text between matches is the template's, and nothing else is added; so
\* binding every name to itself returns the template.
C7_SinglePass ==
    (call.op = "translate" /\ result.kind = "Ok") =>
        LET ms == result.matches
            out == result.value[1]
            t == CallTemplate
            prevEnd(k) == IF k = 1 THEN 0 ELSE ms[k - 1].end
        IN  /\ \A k \in DOMAIN ms :
                  /\ prevEnd(k) <= ms[k].start
                  /\ OccursAt(BoundNames[ms[k].pattern], t, ms[k].start)
                  /\ ms[k].end = ms[k].start + Len(BoundNames[ms[k].pattern])
                  /\ OccursAt(BoundValues[ms[k].pattern], out,
                              ms[k].start + Shift(ms, BoundValues, k - 1))
                  /\ SubSeq(out, prevEnd(k) + Shift(ms, BoundValues, k - 1) + 1,
                            ms[k].start + Shift(ms, BoundValues, k - 1))
                        = SubSeq(t, prevEnd(k) + 1, ms[k].start)
            /\ Len(out) = Len(t) + Shift(ms, BoundValues, Len(ms))
            /\ LET last == IF ms = <<>> THEN 0 ELSE ms[Len(ms)].end
               IN  SubSeq(out, last + Shift(ms, BoundValues, Len(ms)) + 1, Len(out))
                      = SubSeq(t, last + 1, Len(t))
            /\ (\A i \in DOMAIN BoundNames : BoundValues[i] = BoundNames[i]) => out = t

\* "b" was bound to "ab", a value holding the bound name "ab" (and "b"
\* itself), "ab" was bound to itself, and replacements were made.
C7_Witness ==
    /\ call.op = "translate"
    /\ result.kind = "Ok"
    /\ call.args = <<<<ArgB, ArgAB>>, <<ArgAB, ArgAB>>>>
    /\ result.matches # <<>>

\* The positions of the bindings that translate rejects.
Offending ==
    {i \in DOMAIN BoundNames :
        \/ BoundNames[i] \notin Range(translations[call.key].arguments)
        \/ \E j \in 1..(i - 1) : BoundNames[j] = BoundNames[i]}

FirstOffending == CHOOSE i \in Offending : \A j \in Offending : i <= j

\* C8: translate reports MissingKey(key) for an absent key; otherwise
\* UnknownLanguage(language) for an unregistered language; otherwise the
\* first rejected binding decides, UnknownArgument(name) for an undeclared
\* name and DuplicatedArgument(name) for a declared name bound earlier in the
\* call; it returns a string exactly when it reports no error.
C8_ValidationOrder ==
    call.op = "translate" =>
        /\ result.kind = "Ok" <=> result.value # <<>>
        /\ IF call.key \notin DOMAIN translations
           THEN result = Err("MissingKey", call.key)
           ELSE IF call.language \notin Range(languages)
           THEN result = Err("UnknownLanguage", call.language)
           ELSE IF Offending # {}
           THEN LET name == BoundNames[FirstOffending]
                IN  IF name \notin Range(translations[call.key].arguments)
                    THEN result = Err("UnknownArgument", name)
                    ELSE result = Err("DuplicatedArgument", name)
           ELSE result.kind = "Ok"

\* A key that is not stored was asked for in an unregistered language, after
\* another key had been stored.
C8_Witness ==
    /\ call.op = "translate"
    /\ call.key \notin DOMAIN translations
    /\ call.language = LangC
    /\ call.args # <<>>
    /\ result = Err("MissingKey", call.key)
    /\ translations # [k \in {} |-> <<>>]

====
